---- MODULE Spec2Model ----
(***************************************************************************)
(* LinkedIn Post Factory: the carousel renderer                            *)
(* (MediaGenerator.generate_carousel_pdf), the media and news endpoints of *)
(* api/main.py and the files they share in the working directory.          *)
(*                                                                         *)
(* Text is modelled as a sequence of one-character strings, so that        *)
(* len(), strip(), split(), upper() and the regular expression of the      *)
(* '(Visual: ...)' directive are computed as Python computes them.         *)
(***************************************************************************)
EXTENDS Integers, Sequences, FiniteSets, TLC

VARIABLES
    slide_in,   \* layout specification: the slide handed to the renderer, with its index
    layout,     \* layout specification: what the renderer computed for slide_in, or NoLayout
    wk,         \* each worker process: where it is in its request, and its locals
    fs          \* the files of the working directory the workers share: path -> data

layout_vars == <<slide_in, layout>>
shared_vars == <<wk, fs>>
vars == <<slide_in, layout, wk, fs>>

(***************************************************************************)
(* Bounds of the model.                                                    *)
(***************************************************************************)
MaxTitleWords == 3      \* words drawn from TitleWordPool to build a title
MaxContentPieces == 3   \* pieces drawn from ContentPiecePool to build a content string
MaxSlides == 2          \* slides of a carousel
MaxArticles == 2        \* articles in a NewsAPI answer
MaxResults == 2         \* max_results of a news search
MaxImageSide == 16      \* width and height of a provider image, in pixels
MaxRepeat == 4          \* times a piece of BulletPiecePool is repeated in a body
MaxNewsArticles == 3    \* articles in a NewsAPI answer, news specification
MaxNewsResults == 3     \* max_results of a news search, news specification
MaxParsePieces == 4     \* pieces drawn from ParsePiecePool to build a generated text
MaxVisualPieces == 3    \* pieces drawn from VisualPiecePool to build a content string

(***************************************************************************)
(* Python text primitives.                                                 *)
(***************************************************************************)
Whitespace == {" ", "\n"}

LowerLetters == <<"a","b","c","d","e","f","g","h","i","j","k","l","m",
                  "n","o","p","q","r","s","t","u","v","w","x","y","z">>
UpperLetters == <<"A","B","C","D","E","F","G","H","I","J","K","L","M",
                  "N","O","P","Q","R","S","T","U","V","W","X","Y","Z">>

upper_char(c) ==
    IF \E i \in 1..26 : LowerLetters[i] = c
    THEN UpperLetters[CHOOSE i \in 1..26 : LowerLetters[i] = c]
    ELSE c

lower_char(c) ==
    IF \E i \in 1..26 : UpperLetters[i] = c
    THEN LowerLetters[CHOOSE i \in 1..26 : UpperLetters[i] = c]
    ELSE c

\* str.upper() and str.lower()
upper(s) == [i \in 1..Len(s) |-> upper_char(s[i])]
lower(s) == [i \in 1..Len(s) |-> lower_char(s[i])]

\* the first index >= i of s that holds a character of set cs, or Len(s) + 1
FirstIn(s, i, cs) ==
    IF \E k \in i..Len(s) : s[k] \in cs
    THEN CHOOSE k \in i..Len(s) : s[k] \in cs /\ \A j \in i..(k - 1) : s[j] \notin cs
    ELSE Len(s) + 1

\* the first index >= i of s that holds a character outside set cs, or Len(s) + 1
FirstNotIn(s, i, cs) ==
    IF \E k \in i..Len(s) : s[k] \notin cs
    THEN CHOOSE k \in i..Len(s) : s[k] \notin cs /\ \A j \in i..(k - 1) : s[j] \in cs
    ELSE Len(s) + 1

\* the last index of s that holds a character outside set cs, or 0
LastNotIn(s, cs) ==
    IF \E k \in 1..Len(s) : s[k] \notin cs
    THEN CHOOSE k \in 1..Len(s) : s[k] \notin cs /\ \A j \in (k + 1)..Len(s) : s[j] \in cs
    ELSE 0

lstrip(s) == SubSeq(s, FirstNotIn(s, 1, Whitespace), Len(s))

rstrip(s) == SubSeq(s, 1, LastNotIn(s, Whitespace))

\* str.strip()
strip(s) == rstrip(lstrip(s))

\* str.split(): the maximal runs of non-whitespace characters, in order
RECURSIVE split_from(_, _)
split_from(s, i) ==
    LET b == FirstNotIn(s, i, Whitespace)
        e == FirstIn(s, b, Whitespace)
    IN  IF b > Len(s) THEN <<>> ELSE <<SubSeq(s, b, e - 1)>> \o split_from(s, e)

split(s) == split_from(s, 1)

\* " ".join(words)
RECURSIVE join(_)
join(words) ==
    IF words = <<>> THEN <<>>
    ELSE IF Len(words) = 1 THEN words[1]
    ELSE words[1] \o <<" ">> \o join(Tail(words))

\* s[:n]
prefix(s, n) == SubSeq(s, 1, IF Len(s) < n THEN Len(s) ELSE n)

\* s.split('.')[0]
before_period(s) == SubSeq(s, 1, FirstIn(s, 1, {"."}) - 1)

(***************************************************************************)
(* The directive pattern  r'\(Visual:\s*([^)]+)\)'  with re.IGNORECASE.    *)
(* After the opener the pattern needs a non-empty run of characters other  *)
(* than ')' and then a ')': '\s*' gives characters back to '[^)]+' when    *)
(* the run is all whitespace.                                              *)
(***************************************************************************)
VisualOpener == <<"(", "v", "i", "s", "u", "a", "l", ":">>

OpensAt(s, i) ==
    /\ i + Len(VisualOpener) - 1 <= Len(s)
    /\ \A k \in 1..Len(VisualOpener) : lower_char(s[i + k - 1]) = VisualOpener[k]

\* the index of the ')' that ends a match starting at i, or 0 when none starts there
MatchEnd(s, i) ==
    IF ~OpensAt(s, i) THEN 0
    ELSE LET j == i + Len(VisualOpener)
             k == FirstIn(s, j, {")"})
         IN  IF k <= Len(s) /\ k > j THEN k ELSE 0

\* group(1) of a match starting at i
MatchGroup(s, i) ==
    LET run == SubSeq(s, i + Len(VisualOpener), MatchEnd(s, i) - 1)
    IN  IF lstrip(run) = <<>> THEN <<run[Len(run)]>> ELSE lstrip(run)

\* the start of the leftmost match that starts at or after i, or 0
match_from(s, i) ==
    IF \E k \in i..Len(s) : MatchEnd(s, k) # 0
    THEN CHOOSE k \in i..Len(s) :
            MatchEnd(s, k) # 0 /\ \A j \in i..(k - 1) : MatchEnd(s, j) = 0
    ELSE 0

\* re.search: the start of the leftmost match, or 0
visual_match(s) == match_from(s, 1)

\* re.sub(pattern, '', s): every non-overlapping match removed, left to right
RECURSIVE sub_from(_, _)
sub_from(s, i) ==
    LET m == match_from(s, i)
    IN  IF m = 0 THEN SubSeq(s, i, Len(s))
        ELSE SubSeq(s, i, m - 1) \o sub_from(s, MatchEnd(s, m) + 1)

sub_visual(s) == sub_from(s, 1)

(***************************************************************************)
(* Slides: a dict that may lack either key (slide.get with a default).     *)
(***************************************************************************)
page_width == 600
page_height == 750

Digit == <<"1", "2", "3", "4", "5", "6", "7", "8", "9">>

\* slide.get('title', f'Slide {idx + 1}')   (idx counts from 0)
slide_get_title(slide, idx) ==
    IF "title" \in DOMAIN slide THEN slide.title
    ELSE <<"S", "l", "i", "d", "e", " ">> \o <<Digit[idx + 1]>>

\* slide.get('content', '')
slide_get_content(slide) ==
    IF "content" \in DOMAIN slide THEN slide.content ELSE <<>>

(***************************************************************************)
(* Per-slide layout of generate_carousel_pdf: cover test, title, prompt.   *)
(***************************************************************************)
content_no_visual(slide) == strip(sub_visual(strip(slide_get_content(slide))))

\* variant: the first slide is not taken for a cover slide
is_cover_slide_no_idx(slide, idx) == content_no_visual(slide) = <<>>

is_cover_slide(slide, idx) == content_no_visual(slide) = <<>> \/ idx = 0

\* the title as drawn: uppercased on cover slides
drawn_title(slide, idx) ==
    IF is_cover_slide(slide, idx)
    THEN upper(slide_get_title(slide, idx))
    ELSE slide_get_title(slide, idx)

title_y_pos(slide, idx) ==
    IF is_cover_slide(slide, idx) THEN page_height - 150 ELSE page_height - 58

\* variant: the thresholds taken inclusively
title_font_inclusive(t) ==
    IF Len(t) >= 50 THEN 18
    ELSE IF Len(t) >= 35 THEN 22
    ELSE IF Len(t) >= 25 THEN 26
    ELSE 32

title_font(t) ==
    IF Len(t) > 50 THEN 18
    ELSE IF Len(t) > 35 THEN 22
    ELSE IF Len(t) > 25 THEN 26
    ELSE 32

\* variant: the odd word goes to the first line
title_lines_ceil(slide, idx) ==
    LET t == drawn_title(slide, idx)
        y == title_y_pos(slide, idx)
        words == split(t)
        half == (Len(words) + 1) \div 2
        line1 == join(SubSeq(words, 1, half))
        line2 == join(SubSeq(words, half + 1, Len(words)))
    IN  IF Len(t) > 50
        THEN IF is_cover_slide(slide, idx)
             THEN << <<y + 30, line1>>, <<y, line2>> >>
             ELSE << <<page_height - 50, line1>>, <<page_height - 72, line2>> >>
        ELSE << <<y, t>> >>

\* the drawCentredString calls for the title: <<y, text>> in drawing order
title_lines(slide, idx) ==
    LET t == drawn_title(slide, idx)
        y == title_y_pos(slide, idx)
        words == split(t)
        half == Len(words) \div 2
        line1 == join(SubSeq(words, 1, half))
        line2 == join(SubSeq(words, half + 1, Len(words)))
    IN  IF Len(t) > 50
        THEN IF is_cover_slide(slide, idx)
             THEN << <<y + 30, line1>>, <<y, line2>> >>
             ELSE << <<page_height - 50, line1>>, <<page_height - 72, line2>> >>
        ELSE << <<y, t>> >>

CoverPhrase ==
    <<"P", "r", "o", "f", "e", "s", "s", "i", "o", "n", "a", "l", " ", "c", "o",
      "r", "p", "o", "r", "a", "t", "e", " ", "b", "a", "c", "k", "g", "r", "o",
      "u", "n", "d", " ", "r", "e", "l", "a", "t", "e", "d", " ", "t", "o", " ">>

GenericPhrase ==
    <<"P", "r", "o", "f", "e", "s", "s", "i", "o", "n", "a", "l", " ", "b", "u",
      "s", "i", "n", "e", "s", "s", " ", "c", "o", "n", "c", "e", "p", "t", " ",
      "f", "o", "r", " ">>

\* variant: the first sentence is not cut to 100 characters
image_prompt_text_uncut(slide, idx) ==
    LET content_text == strip(slide_get_content(slide))
        m == visual_match(content_text)
    IN  IF m # 0 THEN strip(MatchGroup(content_text, m))
        ELSE IF content_text # <<>> /\ Len(content_text) > 10
             THEN before_period(content_text)
        ELSE IF idx = 0 THEN CoverPhrase \o drawn_title(slide, idx)
        ELSE GenericPhrase \o drawn_title(slide, idx)

\* image_prompt_text
image_prompt_text(slide, idx) ==
    LET content_text == strip(slide_get_content(slide))
        m == visual_match(content_text)
    IN  IF m # 0 THEN strip(MatchGroup(content_text, m))
        ELSE IF content_text # <<>> /\ Len(content_text) > 10
             THEN prefix(before_period(content_text), 100)
        ELSE IF idx = 0 THEN CoverPhrase \o drawn_title(slide, idx)
        ELSE GenericPhrase \o drawn_title(slide, idx)

\* everything the renderer derives from a slide before it asks for the image
slide_layout(slide, idx) ==
    [ cover  |-> is_cover_slide(slide, idx),
      title  |-> drawn_title(slide, idx),
      font   |-> title_font(drawn_title(slide, idx)),
      lines  |-> title_lines(slide, idx),
      prompt |-> image_prompt_text(slide, idx) ]

(***************************************************************************)
(* Inputs of the layout specification.                                     *)
(***************************************************************************)
Rep(c, n) == [i \in 1..n |-> c]

RECURSIVE Concat(_)
Concat(ss) == IF ss = <<>> THEN <<>> ELSE Head(ss) \o Concat(Tail(ss))

SeqsUpTo(S, n) == UNION { [1..k -> S] : k \in 0..n }

\* words whose lengths reach 25, 26, 35, 36, 50 and 51 when joined by spaces;
\* the last one brings a second space and an upper-case letter
TitleWordPool ==
    { Rep("a", 1), Rep("a", 9), Rep("b", 24), Rep("b", 25), <<" ", "A">> }

Titles == { join(ws) : ws \in SeqsUpTo(TitleWordPool, MaxTitleWords) }

\* a whole directive, a lower-case opener, the characters that end or split
\* text, a short word, a word longer than 10 and text longer than 100
ContentPiecePool ==
    { <<"(", "V", "i", "s", "u", "a", "l", ":", " ", "x", ")">>,
      <<"(", "v", "i", "s", "u", "a", "l", ":">>,
      <<")">>, <<".">>, <<"\n">>,
      <<"a", "b">>, Rep("b", 11), Rep("c", 101) }

Contents == { Concat(ps) : ps \in SeqsUpTo(ContentPiecePool, MaxContentPieces) }

FewContents == { <<>>, <<"(", "V", "i", "s", "u", "a", "l", ":", " ", "x", ")">>,
                 Rep("b", 11) \o <<".">> \o <<"a", "b">> }

\* every title with a few contents, every content with one title, and slides
\* that lack a key
LayoutSlides ==
    { [title |-> t, content |-> c] : t \in Titles, c \in FewContents }
        \cup { [title |-> t] : t \in Titles }
        \cup { [title |-> <<"a", "b">>, content |-> c] : c \in Contents }
        \cup { [content |-> c] : c \in Contents }

NoLayout == [cover |-> FALSE, title |-> <<>>, font |-> 0, lines |-> <<>>, prompt |-> <<>>]

(***************************************************************************)
(* Python floats: IEEE-754 doubles, a 53-bit mantissa m and an exponent e  *)
(* standing for m * 2^e.  A mantissa is a number of four 20-bit limbs,     *)
(* lowest first, so that no step leaves the machine integers.  Division    *)
(* and multiplication round to nearest, ties to even, as the hardware      *)
(* does.                                                                   *)
(***************************************************************************)
LimbBase == 1048576     \* 2^20
MantissaBits == 53

nat(n) == <<n % LimbBase, n \div LimbBase, 0, 0>>

is_zero(a) == \A i \in 1..4 : a[i] = 0

\* a >= b
ge(a, b) ==
    LET d == { i \in 1..4 : a[i] # b[i] }
    IN  d = {} \/ (LET top == CHOOSE i \in d : \A j \in d : j <= i IN a[top] > b[top])

RECURSIVE borrow(_, _, _)
borrow(a, b, i) ==
    IF i = 1 THEN 0
    ELSE IF a[i - 1] - b[i - 1] - borrow(a, b, i - 1) < 0 THEN 1 ELSE 0

\* a - b, for a >= b
sub(a, b) ==
    LET limb(i) == (a[i] - b[i] - borrow(a, b, i) + LimbBase) % LimbBase
    IN  <<limb(1), limb(2), limb(3), limb(4)>>

\* 2 * a + bit
twice_plus(a, bit) ==
    LET limb(i) ==
            (2 * a[i] + (IF i = 1 THEN bit ELSE a[i - 1] \div (LimbBase \div 2))) % LimbBase
    IN  <<limb(1), limb(2), limb(3), limb(4)>>

\* a div 2
half(a) ==
    LET limb(i) == a[i] \div 2 + (IF i < 4 THEN (a[i + 1] % 2) * (LimbBase \div 2) ELSE 0)
    IN  <<limb(1), limb(2), limb(3), limb(4)>>

odd(a) == a[1] % 2 = 1

\* a + 1
succ(a) ==
    LET limb(i) ==
            (a[i] + (IF \A j \in 1..(i - 1) : a[j] = LimbBase - 1 THEN 1 ELSE 0)) % LimbBase
    IN  <<limb(1), limb(2), limb(3), limb(4)>>

RECURSIVE times_carry(_, _, _)
times_carry(a, c, i) ==
    IF i = 1 THEN 0 ELSE (a[i - 1] * c + times_carry(a, c, i - 1)) \div LimbBase

\* a * c, for a small c
times_small(a, c) ==
    LET limb(i) == (a[i] * c + times_carry(a, c, i)) % LimbBase
    IN  <<limb(1), limb(2), limb(3), limb(4)>>

bit_length(a) ==
    IF is_zero(a) THEN 0
    ELSE LET top == CHOOSE i \in 1..4 : a[i] # 0 /\ \A j \in (i + 1)..4 : a[j] = 0
         IN  20 * (top - 1) + (CHOOSE k \in 1..20 : 2^(k - 1) <= a[top] /\ a[top] < 2^k)

limb_at(a, j) == IF j >= 1 /\ j <= 4 THEN a[j] ELSE 0

\* a * 2^s
shift_left(a, s) ==
    LET q == s \div 20
        r == s % 20
        limb(i) == (limb_at(a, i - q) % 2^(20 - r)) * 2^r
                       + limb_at(a, i - q - 1) \div 2^(20 - r)
    IN  <<limb(1), limb(2), limb(3), limb(4)>>

\* a div 2^s, with the last bit dropped (guard) and whether any bit below it was set
shift_right(a, s, sticky) ==
    LET q == s \div 20
        r == s % 20
        limb(i) == limb_at(a, i + q) \div 2^r + (limb_at(a, i + q + 1) % 2^r) * 2^(20 - r)
        bit(k) == (limb_at(a, k \div 20 + 1) \div 2^(k % 20)) % 2
        below(k) == \E j \in 1..4 :
                        IF 20 * j <= k THEN a[j] # 0
                        ELSE 20 * (j - 1) < k /\ a[j] % 2^(k - 20 * (j - 1)) # 0
    IN  [n |-> <<limb(1), limb(2), limb(3), limb(4)>>,
         guard |-> s >= 1 /\ bit(s - 1) = 1,
         sticky |-> sticky \/ (s >= 1 /\ below(s - 1))]

\* the double nearest to n * 2^e (+ something below one unit of n when sticky)
round_to_double(n, e, sticky) ==
    LET s == bit_length(n) - MantissaBits
    IN  IF s <= 0 THEN [m |-> shift_left(n, 0 - s), e |-> e + s]
        ELSE LET r == shift_right(n, s, sticky)
                 up == r.guard /\ (r.sticky \/ odd(r.n))
                 m == IF up THEN succ(r.n) ELSE r.n
             IN  IF bit_length(m) > MantissaBits
                 THEN [m |-> half(m), e |-> e + s + 1]
                 ELSE [m |-> m, e |-> e + s]

\* float(n) of a positive int
int_to_float(n) == round_to_double(nat(n), 0, FALSE)

DigitBits == 11

\* a div 2^33: the leading bits of a
leading(a) == a[4] * 2^27 + a[3] * 2^7 + a[2] \div 2^13

\* one step of long division by d: DigitBits more bits of the quotient.  The
\* digit is guessed from the leading bits and is at most one too small.
div_step(st, d) ==
    LET r2 == shift_left(st.r, DigitBits)
        guess == leading(r2) \div (leading(d) + 1)
        digit == IF ge(r2, times_small(d, guess + 1)) THEN guess + 1 ELSE guess
    IN  [r |-> sub(r2, times_small(d, digit)),
         q |-> [shift_left(st.q, DigitBits) EXCEPT ![1] = @ + digit]]

RECURSIVE div_steps(_, _, _)
div_steps(st, d, k) == IF k = 0 THEN st ELSE div_steps(div_step(st, d), d, k - 1)

\* x / y
float_div(x, y) ==
    LET first == ge(x.m, y.m)
        st == div_steps([r |-> IF first THEN sub(x.m, y.m) ELSE x.m,
                         q |-> nat(IF first THEN 1 ELSE 0)], y.m, 5)
    IN  round_to_double(st.q, x.e - y.e - 5 * DigitBits, ~is_zero(st.r))

\* c * x for an int c: the exact product, rounded once
int_times_float(c, x) == round_to_double(times_small(x.m, c), x.e, FALSE)

\* x > y
float_gt(x, y) == x.e > y.e \/ (x.e = y.e /\ x.m # y.m /\ ge(x.m, y.m))

\* int(x): truncation
float_to_int(x) ==
    LET n == IF x.e >= 0 THEN shift_left(x.m, x.e)
             ELSE shift_right(x.m, 0 - x.e, FALSE).n
    IN  n[1] + LimbBase * n[2]

(***************************************************************************)
(* The image step's arithmetic: the size the image is resized to and the   *)
(* place it is drawn at.                                                   *)
(***************************************************************************)
max_width == 500
max_height == 300

\* variant: every image is fitted to the height of the box
image_fit_to_height(width, height, cover) ==
    LET img_ratio == float_div(int_to_float(width), int_to_float(height))
        new_width == float_to_int(int_times_float(max_height, img_ratio))
    IN  [new_width |-> new_width, new_height |-> max_height,
         x_offset |-> 50 + (max_width - new_width) \div 2,
         image_y |-> page_height - (IF cover THEN 480 ELSE 380)]

image_fit(width, height, cover) ==
    LET img_ratio == float_div(int_to_float(width), int_to_float(height))
        box_ratio == float_div(int_to_float(max_width), int_to_float(max_height))
        wider == float_gt(img_ratio, box_ratio)
        new_width == IF wider THEN max_width
                     ELSE float_to_int(int_times_float(max_height, img_ratio))
        new_height == IF wider
                      THEN float_to_int(float_div(int_to_float(max_width), img_ratio))
                      ELSE max_height
    IN  [new_width |-> new_width, new_height |-> new_height,
         x_offset |-> 50 + (max_width - new_width) \div 2,
         image_y |-> page_height - (IF cover THEN 480 ELSE 380)
                        + (max_height - new_height) \div 2]

(***************************************************************************)
(* The bullets of a page: the body is cleaned, cut into points at periods  *)
(* and newlines, long points are wrapped word by word, and at most twelve  *)
(* lines are drawn downwards from text_start_y.                            *)
(***************************************************************************)
max_chars_per_line == 45

\* str.replace(c, '') for every character c of cs
remove_chars(s, cs) == SelectSeq(s, LAMBDA c : c \notin cs)

\* s[i:].replace('\n', '. ')
RECURSIVE replace_newlines(_, _)
replace_newlines(s, i) ==
    LET e == FirstIn(s, i, {"\n"})
    IN  IF e > Len(s) THEN SubSeq(s, i, Len(s))
        ELSE SubSeq(s, i, e - 1) \o <<".", " ">> \o replace_newlines(s, e + 1)

\* s[i:].split('.')
RECURSIVE split_periods(_, _)
split_periods(s, i) ==
    LET e == FirstIn(s, i, {"."})
    IN  IF e > Len(s) THEN <<SubSeq(s, i, Len(s))>>
        ELSE <<SubSeq(s, i, e - 1)>> \o split_periods(s, e + 1)

\* the body as cleaned for the bullets: directive and markdown symbols
\* removed, nothing when it is empty or repeats the title
bullet_content(slide, idx) ==
    LET slide_title == drawn_title(slide, idx)
        content == strip(remove_chars(strip(sub_visual(strip(slide_get_content(slide)))),
                                      {"*", "#", "_"}))
    IN  IF content = <<>> \/ lower(content) = lower(slide_title) THEN <<>> ELSE content

\* [p.strip() for p in content.replace('\n', '. ').split('.') if p.strip()]
raw_points(content) ==
    LET pieces == split_periods(replace_newlines(content, 1), 1)
        stripped(k) == strip(pieces[k])
        kept == { k \in 1..Len(pieces) : stripped(k) # <<>> }
        nth(n) == CHOOSE k \in kept : Cardinality({ j \in kept : j < k }) = n - 1
    IN  [n \in 1..Cardinality(kept) |-> stripped(nth(n))]

\* the loop over the words of a long point
RECURSIVE wrap_words(_, _, _)
wrap_words(words, current_line, wrapped_lines) ==
    IF words = <<>>
    THEN IF strip(current_line) # <<>>
         THEN Append(wrapped_lines, strip(current_line))
         ELSE wrapped_lines
    ELSE LET word == Head(words)
         IN  IF Len(current_line) + Len(word) + 1 <= max_chars_per_line
             THEN wrap_words(Tail(words), current_line \o word \o <<" ">>, wrapped_lines)
             ELSE wrap_words(Tail(words), word \o <<" ">>,
                             IF current_line # <<>>
                             THEN Append(wrapped_lines, strip(current_line))
                             ELSE wrapped_lines)

\* the lines one point gives
point_lines(point) ==
    IF Len(point) > max_chars_per_line
    THEN wrap_words(split(point), <<>>, <<>>)
    ELSE <<point>>

\* the loop over the points: points that repeat the title are skipped
RECURSIVE extend_bullet_points(_, _)
extend_bullet_points(points, slide_title) ==
    IF points = <<>> THEN <<>>
    ELSE (IF lower(Head(points)) = lower(slide_title) THEN <<>>
          ELSE point_lines(Head(points)))
            \o extend_bullet_points(Tail(points), slide_title)

\* variant: every point of the body is wrapped, not only the first six
bullet_points_all(slide, idx) ==
    LET content == bullet_content(slide, idx)
    IN  IF content = <<>> THEN <<>>
        ELSE extend_bullet_points(raw_points(content), drawn_title(slide, idx))

bullet_points(slide, idx) ==
    LET content == bullet_content(slide, idx)
    IN  IF content = <<>> THEN <<>>
        ELSE extend_bullet_points(prefix(raw_points(content), 6), drawn_title(slide, idx))

text_start_y == page_height - 420

\* variant: bullets are always 32 points apart
line_spacing_fixed(total_bullets) == 32

line_spacing(total_bullets) ==
    LET available_height == text_start_y - 80
        fitting == available_height \div (IF total_bullets > 1 THEN total_bullets ELSE 1)
    IN  IF total_bullets > 0
        THEN (IF fitting < 32 THEN fitting ELSE 32)
        ELSE 32

\* variant: every line is drawn
bullet_points_shown_all(points) == points

\* bullet_points[:12]
bullet_points_shown(points) == prefix(points, 12)

\* the drawString calls of the bullets, in drawing order
drawn_bullets(slide, idx) ==
    LET shown == bullet_points_shown(bullet_points(slide, idx))
        total_bullets == Len(shown)
    IN  [ total_bullets |-> total_bullets,
          line_spacing |-> line_spacing(total_bullets),
          bullets |-> [i \in 1..total_bullets |->
                          [y |-> text_start_y - (i - 1) * line_spacing(total_bullets),
                           text |-> strip(shown[i])]] ]

(***************************************************************************)
(* Workers, files and the image provider.                                  *)
(***************************************************************************)
Workers == {"w1", "w2"}

None == [kind |-> "none"]      \* Python's None

FailedCaption == "[Image generation failed]"

\* the text of whatever the image step raised
ImageFailed == "image step failed"

\* what model.generate_content gives _generate_ai_image_sync
ApiResponses == {"raises", "no_parts", "empty_data", "bad_data", "image"}

\* the bytes the provider returned to worker w for slide idx
ImageData(w, idx, api) ==
    [kind |-> "png", by |-> w, idx |-> idx, decodable |-> (api = "image"), fitted |-> FALSE]

\* _generate_ai_image_sync: inline.data when it is there, an exception otherwise
generate_ai_image_sync(api, w, idx) ==
    IF api \in {"bad_data", "image"}
    THEN [raised |-> FALSE, data |-> ImageData(w, idx, api)]
    ELSE [raised |-> TRUE, data |-> None]

\* img.resize(...) followed by img.save(...): the image as the temp file holds it
fitted(data) == [data EXCEPT !.fitted = TRUE]

\* temp_carousel_img_{idx}.png in the working directory
temp_img_path(idx) == [dir |-> ".", name |-> <<"temp_carousel_img">>, n |-> idx]

exists(path) == path \in DOMAIN fs

write_file(files, path, data) == (path :> data) @@ files

remove_file(files, path) == [q \in DOMAIN files \ {path} |-> files[q]]

(***************************************************************************)
(* Slides of the shared specification: the k-th slide carries k in its     *)
(* title; odd slides have a directive and a body, even slides only a       *)
(* title.  A carousel is the first n of them.                              *)
(***************************************************************************)
SlideAt(k) ==
    IF k % 2 = 1
    THEN [title |-> <<"a", Digit[k]>>,
          content |-> <<"(", "V", "i", "s", "u", "a", "l", ":", " ", "x", ")", "\n", "h", "i">>]
    ELSE [title |-> <<"a", Digit[k]>>]

SlideLists == { [k \in 1..n |-> SlideAt(k)] : n \in 0..MaxSlides }

NoPage == [idx |-> 0, of |-> 0, layout |-> NoLayout, requests |-> 0, image |-> None,
           placeholder |-> FALSE, caption |-> "", outcome |-> "none"]

NoRequest == [language |-> "none", title |-> <<>>, slides |-> <<>>, upload |-> FALSE]

IdleWorker ==
    [pc |-> "idle", op |-> "none", caller |-> "none", slides |-> <<>>, idx |-> 0,
     pages |-> <<>>, page |-> NoPage, result |-> None,
     req |-> NoRequest, faults |-> {}, url |-> None, filename |-> None,
     local_path |-> None, url_es |-> None, filename_es |-> None,
     local_path_es |-> None, post |-> None, resp |-> None]

(***************************************************************************)
(* Responses.  faults is the history of a request: the exceptions raised   *)
(* while it was served, caught or not, each named by its text.             *)
(***************************************************************************)
\* return {...}
ok200(body) == [status |-> 200, detail |-> <<>>, body |-> body]

\* raise HTTPException(status_code=500, detail=f"<where>: {str(e)}")
error500(where, exc) == [status |-> 500, detail |-> <<where, exc>>, body |-> None]

answer(rec, faults, resp) ==
    [rec EXCEPT !.faults = @ \cup faults, !.resp = resp, !.pc = "done"]

\* f"data:{mime_type};base64,{b64}"
to_data_uri(data, mime_type) ==
    [kind |-> "data_uri", mime |-> mime_type, b64 |-> [encoded |-> data]]

\* Python's truth test of a url: None and '' are false
falsy(url) == url = None \/ url = [kind |-> "url", text |-> ""]

\* what storage_service.upload_media(data, post_id, media_type, ext) gives its
\* caller: the public URL of the upload, nothing, or an exception
UploadResults(data, media_type) ==
    { [raised |-> FALSE, value |-> [kind |-> "url", text |-> "stored", of |-> data,
                                    media |-> media_type]],
      [raised |-> FALSE, value |-> None],
      [raised |-> TRUE, value |-> None] }

UploadFailed == "storage upload failed"

\* 'if request.save_to_storage and storage_service and request.post_id'
Stores == [save_to_storage : BOOLEAN, storage_service : BOOLEAN, post_id : BOOLEAN]

wants_upload(store) == store.save_to_storage /\ store.storage_service /\ store.post_id

\* the upload inside its own try/except, then 'if not url: url = to_data_uri(...)'
stored_url(data, mime_type, upload, up) ==
    LET url == IF upload /\ ~up.raised THEN up.value ELSE None
    IN  [url |-> IF falsy(url) THEN to_data_uri(data, mime_type) ELSE url,
         faults |-> IF upload /\ up.raised THEN {UploadFailed} ELSE {}]

\* the body of a media endpoint after its generator was called, with the upload
\* failure escaping to the outer handler
media_response_upload_fatal(got, media_type, mime_type, where, upload, up) ==
    IF got.raised THEN [faults |-> got.faults, resp |-> error500(where, got.exc)]
    ELSE IF upload /\ up.raised
         THEN [faults |-> got.faults \cup {UploadFailed},
               resp |-> error500(where, UploadFailed)]
    ELSE [faults |-> got.faults,
          resp |-> ok200([success |-> TRUE,
                          url |-> stored_url(got.bytes, mime_type, upload, up).url,
                          type |-> media_type])]

\* the body of a media endpoint after its generator was called: the outer
\* handler turns the generator's exception into a 500
media_response(got, media_type, mime_type, where, upload, up) ==
    IF got.raised THEN [faults |-> got.faults, resp |-> error500(where, got.exc)]
    ELSE LET stored == stored_url(got.bytes, mime_type, upload, up)
         IN  [faults |-> got.faults \cup stored.faults,
              resp |-> ok200([success |-> TRUE, url |-> stored.url, type |-> media_type])]

(***************************************************************************)
(* The generators of the media endpoints.                                  *)
(***************************************************************************)
GeneratorOutcomes == {"bytes", "raises"}

GenerationFailed == "generation failed"

\* generate_code_image, generate_chart, generate_infographic, generate_qr_code:
\* the bytes of the picture, or the exception of the library that draws it
generate_picture(outcome, media_type, w) ==
    IF outcome = "raises"
    THEN [raised |-> TRUE, exc |-> GenerationFailed, bytes |-> None,
          faults |-> {GenerationFailed}]
    ELSE [raised |-> FALSE, exc |-> "", bytes |-> [kind |-> media_type, by |-> w],
          faults |-> {}]

LlmFailed == "LLM call failed"

\* generate_interactive_html: the page of the LLM, or the fallback page that
\* quotes the exception; it never raises
generate_interactive_html(llm, w) ==
    [raised |-> FALSE, exc |-> "",
     bytes |-> IF llm = "raises"
               THEN [kind |-> "fallback_html", by |-> w, quotes |-> LlmFailed]
               ELSE [kind |-> "html", by |-> w, quotes |-> ""],
     faults |-> IF llm = "raises" THEN {LlmFailed} ELSE {}]

NoImageData == "No image data in response"

\* generate_ai_image: inline.data as it came, or the exception re-raised
generate_ai_image(api, w) ==
    IF api \in {"bad_data", "image"}
    THEN [raised |-> FALSE, exc |-> "", bytes |-> ImageData(w, 0, api), faults |-> {}]
    ELSE [raised |-> TRUE, exc |-> NoImageData, bytes |-> None, faults |-> {NoImageData}]

\* a media endpoint: request in, response out
media_endpoint(rec, got, media_type, mime_type, where, upload, up) ==
    LET r == media_response(got, media_type, mime_type, where, upload, up)
    IN  answer([rec EXCEPT !.op = media_type], r.faults, r.resp)

\* POST /media/generate-interactive
GenerateInteractive(w) ==
    /\ wk[w].pc = "idle"
    /\ \E llm \in {"text", "raises"}, store \in Stores :
        LET got == generate_interactive_html(llm, w)
        IN  \E up \in UploadResults(got.bytes, "interactive") :
                wk' = [wk EXCEPT ![w] =
                        media_endpoint(@, got, "interactive", "text/html",
                                       "Error generating interactive demo", wants_upload(store), up)]
    /\ UNCHANGED <<slide_in, layout, fs>>

\* POST /media/generate-code-image
GenerateCodeImage(w) ==
    /\ wk[w].pc = "idle"
    /\ \E outcome \in GeneratorOutcomes, store \in Stores :
        LET got == generate_picture(outcome, "code", w)
        IN  \E up \in UploadResults(got.bytes, "code") :
                wk' = [wk EXCEPT ![w] =
                        media_endpoint(@, got, "code", "image/png",
                                       "Error generating code image", wants_upload(store), up)]
    /\ UNCHANGED <<slide_in, layout, fs>>

\* POST /media/generate-chart
GenerateChart(w) ==
    /\ wk[w].pc = "idle"
    /\ \E outcome \in GeneratorOutcomes, store \in Stores :
        LET got == generate_picture(outcome, "chart", w)
        IN  \E up \in UploadResults(got.bytes, "chart") :
                wk' = [wk EXCEPT ![w] =
                        media_endpoint(@, got, "chart", "image/png",
                                       "Error generating chart", wants_upload(store), up)]
    /\ UNCHANGED <<slide_in, layout, fs>>

\* POST /media/generate-infographic
GenerateInfographic(w) ==
    /\ wk[w].pc = "idle"
    /\ \E outcome \in GeneratorOutcomes, store \in Stores :
        LET got == generate_picture(outcome, "infographic", w)
        IN  \E up \in UploadResults(got.bytes, "infographic") :
                wk' = [wk EXCEPT ![w] =
                        media_endpoint(@, got, "infographic", "image/png",
                                       "Error generating infographic", wants_upload(store), up)]
    /\ UNCHANGED <<slide_in, layout, fs>>

\* POST /media/generate-qrcode
GenerateQRCode(w) ==
    /\ wk[w].pc = "idle"
    /\ \E outcome \in GeneratorOutcomes, store \in Stores :
        LET got == generate_picture(outcome, "qrcode", w)
        IN  \E up \in UploadResults(got.bytes, "qrcode") :
                wk' = [wk EXCEPT ![w] =
                        media_endpoint(@, got, "qrcode", "image/png",
                                       "Error generating QR code", wants_upload(store), up)]
    /\ UNCHANGED <<slide_in, layout, fs>>

\* POST /media/generate-ai-image
GenerateAIImage(w) ==
    /\ wk[w].pc = "idle"
    /\ \E api \in ApiResponses, store \in Stores :
        LET got == generate_ai_image(api, w)
        IN  \E up \in UploadResults(got.bytes, "ai-image") :
                wk' = [wk EXCEPT ![w] =
                        media_endpoint(@, got, "ai-image", "image/png",
                                       "Error generating AI image", wants_upload(store), up)]
    /\ UNCHANGED <<slide_in, layout, fs>>

(***************************************************************************)
(* News search.                                                            *)
(***************************************************************************)
\* the articles NewsAPI can return: url, source name, and whether urlToImage is set
ArticlePool ==
    { [url |-> "u1", source |-> "s1", has_image |-> TRUE],
      [url |-> "u2", source |-> "s1", has_image |-> TRUE],
      [url |-> "u3", source |-> "s1", has_image |-> FALSE],
      [url |-> "u4", source |-> "s2", has_image |-> TRUE] }

ArticleLists == SeqsUpTo(ArticlePool, MaxArticles)

format_article(article) ==
    [url |-> article.url, source |-> article.source, image_url |-> article.has_image]

\* variant: the first pass takes any number of articles of a source
RECURSIVE first_pass_any_source(_, _, _)
first_pass_any_source(articles, results, max_results) ==
    IF articles = <<>> \/ Len(results) >= max_results THEN results
    ELSE LET article == Head(articles)
         IN  IF ~article.has_image
             THEN first_pass_any_source(Tail(articles), results, max_results)
             ELSE first_pass_any_source(Tail(articles), Append(results, format_article(article)),
                                        max_results)

\* first pass: at most 2 per source, image required
RECURSIVE first_pass(_, _, _)
first_pass(articles, results, max_results) ==
    IF articles = <<>> \/ Len(results) >= max_results THEN results
    ELSE LET article == Head(articles)
             source_count ==
                 Cardinality({ i \in 1..Len(results) : results[i].source = article.source })
         IN  IF ~article.has_image \/ source_count >= 2
             THEN first_pass(Tail(articles), results, max_results)
             ELSE first_pass(Tail(articles), Append(results, format_article(article)),
                             max_results)

\* variant: the second pass does not stop at max_results
RECURSIVE second_pass_unlimited(_, _, _)
second_pass_unlimited(articles, results, max_results) ==
    IF articles = <<>> THEN results
    ELSE LET article == Head(articles)
         IN  IF \E i \in 1..Len(results) : results[i].url = article.url
             THEN second_pass_unlimited(Tail(articles), results, max_results)
             ELSE second_pass_unlimited(Tail(articles),
                                        Append(results, format_article(article)),
                                        max_results)

\* second pass: any article whose url is not yet among the results
RECURSIVE second_pass(_, _, _)
second_pass(articles, results, max_results) ==
    IF articles = <<>> \/ Len(results) >= max_results THEN results
    ELSE LET article == Head(articles)
         IN  IF \E i \in 1..Len(results) : results[i].url = article.url
             THEN second_pass(Tail(articles), results, max_results)
             ELSE second_pass(Tail(articles), Append(results, format_article(article)),
                              max_results)

NoNewsKey == "NEWSAPI_KEY not configured"
NewsRequestFailed == "NewsAPI request failed"
MalformedArticle == "malformed article"

NewsApiOutcomes == {"no_key", "request_error", "malformed", "articles"}

\* search_trending_news: a RequestException gives [], any other exception escapes
search_trending_news(api, articles, max_results) ==
    IF api = "no_key"
    THEN [raised |-> TRUE, exc |-> NoNewsKey, value |-> <<>>, faults |-> {NoNewsKey}]
    ELSE IF api = "request_error"
    THEN [raised |-> FALSE, exc |-> "", value |-> <<>>, faults |-> {NewsRequestFailed}]
    ELSE IF api = "malformed"
    THEN [raised |-> TRUE, exc |-> MalformedArticle, value |-> <<>>,
          faults |-> {MalformedArticle}]
    ELSE [raised |-> FALSE, exc |-> "",
          value |-> second_pass(articles, first_pass(articles, <<>>, max_results),
                                max_results),
          faults |-> {}]

\* POST /news/search
SearchNews(w) ==
    /\ wk[w].pc = "idle"
    /\ \E api \in NewsApiOutcomes, articles \in ArticleLists, max_results \in 1..MaxResults :
        LET got == search_trending_news(api, articles, max_results)
            rec == [wk[w] EXCEPT !.op = "news"]
        IN  wk' = [wk EXCEPT ![w] =
                    IF got.raised
                    THEN answer(rec, got.faults, error500("News search failed", got.exc))
                    ELSE answer(rec, got.faults,
                                ok200([articles |-> got.value, count |-> Len(got.value)]))]
    /\ UNCHANGED <<slide_in, layout, fs>>

(***************************************************************************)
(* generate_carousel_pdf, one step for each access to the shared files:    *)
(* the write, the read and the removal of the temp file.                   *)
(***************************************************************************)
\* the call: the canvas is created and the slide loop begins
enter_renderer(rec, slides, caller) ==
    [rec EXCEPT !.caller = caller, !.slides = slides, !.idx = 0, !.pages = <<>>,
                !.pc = IF slides = <<>> THEN "return" ELSE "image"]

\* showPage only for the pages whose image was drawn
finish_page_drawn_only(rec, page) ==
    [rec EXCEPT !.pages = IF page.placeholder THEN @ ELSE Append(@, page),
                !.page = NoPage, !.idx = @ + 1,
                !.pc = IF rec.idx + 1 < Len(rec.slides) THEN "image" ELSE "return"]

\* bullets, footer and c.showPage(): the page is closed and the loop goes on
finish_page(rec, page) ==
    [rec EXCEPT !.pages = Append(@, page), !.page = NoPage, !.idx = @ + 1,
                !.pc = IF rec.idx + 1 < Len(rec.slides) THEN "image" ELSE "return"]

\* the image step without its except clause: the exception leaves the renderer
on_image_failure_raises(rec, page, why) ==
    [rec EXCEPT !.page = [page EXCEPT !.outcome = why], !.faults = @ \cup {ImageFailed},
                !.pc = "raised"]

\* the except clause of the image step: the placeholder panel and its caption
on_image_failure(rec, page, why) ==
    finish_page([rec EXCEPT !.faults = @ \cup {ImageFailed}],
                [page EXCEPT !.placeholder = TRUE, !.caption = FailedCaption,
                             !.outcome = why])

\* a caller outside the HTTP handlers calls generate_carousel_pdf(slides, title, theme)
DirectRender(w) ==
    /\ wk[w].pc = "idle"
    /\ \E slides \in SlideLists :
        wk' = [wk EXCEPT ![w] = enter_renderer([@ EXCEPT !.op = "render"], slides, "direct")]
    /\ UNCHANGED <<slide_in, layout, fs>>

\* header, title, prompt, the provider request, Image.open, resize and
\* img.save(temp_img_path).  The copy that _generate_ai_image_sync keeps under
\* GeminiImages is written and never read: fs leaves it out.
RequestImage(w) ==
    /\ wk[w].pc = "image"
    /\ \E api \in ApiResponses :
        LET rec == wk[w]
            lay == slide_layout(rec.slides[rec.idx + 1], rec.idx)
            page == [idx |-> rec.idx, of |-> Len(rec.slides), layout |-> lay,
                     requests |-> 1, image |-> None, placeholder |-> FALSE,
                     caption |-> "", outcome |-> "pending"]
            got == generate_ai_image_sync(api, w, rec.idx)
            usable == ~got.raised /\ got.data # None /\ got.data.decodable
        IN  /\ fs' = IF usable THEN write_file(fs, temp_img_path(rec.idx), fitted(got.data))
                     ELSE fs
            /\ wk' = [wk EXCEPT ![w] =
                        IF got.raised \/ got.data = None
                        THEN on_image_failure(rec, page, "no image")
                        ELSE IF ~got.data.decodable
                        THEN on_image_failure(rec, page, "not an image")
                        ELSE [rec EXCEPT !.page = page, !.pc = "draw"]]
    /\ UNCHANGED <<slide_in, layout>>

\* c.drawImage(temp_img_path, ...): the file is read as it is now
DrawImage(w) ==
    /\ wk[w].pc = "draw"
    /\ LET rec == wk[w]
           path == temp_img_path(rec.idx)
       IN  wk' = [wk EXCEPT ![w] =
                    IF exists(path)
                    THEN [rec EXCEPT !.page.image = fs[path], !.pc = "remove"]
                    ELSE on_image_failure(rec, rec.page, "file missing")]
    /\ UNCHANGED <<slide_in, layout, fs>>

\* os.remove(temp_img_path), then the rest of the page
RemoveTemp(w) ==
    /\ wk[w].pc = "remove"
    /\ LET rec == wk[w]
           path == temp_img_path(rec.idx)
       IN  /\ fs' = IF exists(path) THEN remove_file(fs, path) ELSE fs
           /\ wk' = [wk EXCEPT ![w] =
                        IF exists(path)
                        THEN finish_page(rec, [rec.page EXCEPT !.outcome = "drawn"])
                        ELSE on_image_failure(rec, rec.page, "file missing")]
    /\ UNCHANGED <<slide_in, layout>>

(***************************************************************************)
(* POST /media/generate-carousel.                                          *)
(***************************************************************************)
\* request.language is Optional[str]: the three names the handler knows, and
\* one it does not
Languages == {"english", "spanish", "both", "french"}

CarouselTitles == { <<"a", "i", "!", " ", "n", "o", "w">> }

\* def generate_carousel_pdf(self, slides, title, theme='professional_blue')
RendererParams == {"slides", "title", "theme"}
RendererRequired == {"slides", "title"}

\* the keywords the handler passes to generate_carousel_pdf
CarouselCallArgs == {"slides", "title", "theme", "first_slide_image_url"}

\* Python binds a keyword call when every keyword names a parameter and every
\* parameter without a default is given
call_accepted(kwargs) == RendererRequired \subseteq kwargs /\ kwargs \subseteq RendererParams

UnexpectedKeyword == "generate_carousel_pdf() got an unexpected keyword argument"
SpanishTranslationFailed == "Spanish version: translation failed"
SpanishNotJson == "Spanish version: translation is not JSON"
SpanishRejected == "Spanish version: unexpected keyword argument"

CarouselPrefix == "Error generating carousel"

AlphaNum ==
    { LowerLetters[i] : i \in 1..26 } \cup { UpperLetters[i] : i \in 1..26 }
        \cup { Digit[i] : i \in 1..9 } \cup {"0"}

\* re.sub(r'[^A-Za-z0-9]', '', word)
RECURSIVE only_alnum(_)
only_alnum(word) ==
    IF word = <<>> THEN <<>>
    ELSE (IF Head(word) \in AlphaNum THEN <<Head(word)>> ELSE <<>>) \o only_alnum(Tail(word))

\* str.capitalize()
capitalize(word) ==
    IF word = <<>> THEN <<>> ELSE <<upper_char(Head(word))>> \o lower(Tail(word))

\* "".join(... for word in request.title.split()[:3])
short_title(title) ==
    LET words == split(title)
        first3 == SubSeq(words, 1, IF Len(words) < 3 THEN Len(words) ELSE 3)
    IN  Concat([i \in 1..Len(first3) |-> capitalize(only_alnum(first3[i]))])

\* f"{short_title}_{pillar_code}_{date_str}_EN.pdf", pillar and day as given
carousel_filename(title, suffix) ==
    short_title(title) \o <<"_", "General", "_", "Nov05", suffix>>

\* os.path.join(os.getcwd(), "GeneratedCarousels", filename)
carousel_path(filename) == [dir |-> "GeneratedCarousels", name |-> filename, n |-> 0]

TranslationResults == {"raises", "not_json", "slides"}

\* the handler up to its call of the renderer for the English version
GenerateCarousel(w) ==
    /\ wk[w].pc = "idle"
    /\ \E language \in Languages, title \in CarouselTitles, slides \in SlideLists,
          store \in Stores :
        LET rec == [wk[w] EXCEPT !.op = "carousel",
                                 !.req = [language |-> language, title |-> title,
                                          slides |-> slides,
                                          upload |-> wants_upload(store)]]
        IN  wk' = [wk EXCEPT ![w] =
                    IF language \in {"english", "both"}
                    THEN IF call_accepted(CarouselCallArgs)
                         THEN enter_renderer(rec, slides, "english")
                         ELSE answer(rec, {UnexpectedKeyword},
                                     error500(CarouselPrefix, UnexpectedKeyword))
                    ELSE [rec EXCEPT !.pc = "spanish"]]
    /\ UNCHANGED <<slide_in, layout, fs>>

\* the Spanish block up to its call of the renderer; whatever it raises is
\* caught by its own except clause
TranslateCarousel(w) ==
    /\ wk[w].pc = "spanish"
    /\ \E tr \in TranslationResults, spanish_slides \in SlideLists :
        LET rec == wk[w]
        IN  wk' = [wk EXCEPT ![w] =
                    IF rec.req.language \notin {"spanish", "both"}
                    THEN [rec EXCEPT !.pc = "respond"]
                    ELSE IF tr = "raises"
                    THEN [rec EXCEPT !.faults = @ \cup {SpanishTranslationFailed}, !.pc = "respond"]
                    ELSE IF tr = "not_json"
                    THEN [rec EXCEPT !.faults = @ \cup {SpanishNotJson}, !.pc = "respond"]
                    ELSE IF call_accepted(CarouselCallArgs)
                    THEN enter_renderer(rec, spanish_slides, "spanish")
                    ELSE [rec EXCEPT !.faults = @ \cup {SpanishRejected}, !.pc = "respond"]]
    /\ UNCHANGED <<slide_in, layout, fs>>

\* 'if request.language == "spanish"' and the response
RespondCarousel(w) ==
    /\ wk[w].pc = "respond"
    /\ LET rec == wk[w]
           spanish_only == rec.req.language = "spanish"
           both == rec.req.language = "both"
       IN  wk' = [wk EXCEPT ![w] =
                    answer(rec, {},
                           ok200([success |-> TRUE,
                                  url |-> IF spanish_only THEN rec.url_es ELSE rec.url,
                                  filename |-> IF spanish_only THEN rec.filename_es
                                               ELSE rec.filename,
                                  local_path |-> IF spanish_only THEN rec.local_path_es
                                                 ELSE rec.local_path,
                                  url_es |-> IF both THEN rec.url_es ELSE None,
                                  filename_es |-> IF both THEN rec.filename_es ELSE None,
                                  local_path_es |-> IF both THEN rec.local_path_es ELSE None,
                                  type |-> "carousel"]))]
    /\ UNCHANGED <<slide_in, layout, fs>>

\* c.save() and return buffer.getvalue(): the document is its pages.  In the
\* handler the caller goes on: filename, the copy under GeneratedCarousels,
\* the upload and the url
RendererReturn(w) ==
    /\ wk[w].pc = "return"
    /\ LET rec == wk[w]
           pdf == [kind |-> "pdf", by |-> w, pages |-> rec.pages]
           suffix == IF rec.caller = "english" THEN "_EN.pdf" ELSE "_ES.pdf"
           filename == carousel_filename(rec.req.title, suffix)
           path == carousel_path(filename)
       IN  \E up \in UploadResults(pdf, "carousel") :
            LET stored == stored_url(pdf, "application/pdf", rec.req.upload, up)
            IN  /\ wk' = [wk EXCEPT ![w] =
                     CASE rec.caller = "direct" ->
                            [rec EXCEPT !.result = pdf, !.pc = "done"]
                       [] rec.caller = "english" ->
                            [rec EXCEPT !.result = pdf, !.filename = filename,
                                        !.local_path = path, !.url = stored.url,
                                        !.faults = @ \cup stored.faults,
                                        !.pc = "spanish"]
                       [] OTHER ->
                            [rec EXCEPT !.result = pdf, !.filename_es = filename,
                                        !.local_path_es = path, !.url_es = stored.url,
                                        !.faults = @ \cup stored.faults,
                                        !.pc = "respond"]]
                /\ fs' = IF rec.caller = "direct" THEN fs ELSE write_file(fs, path, pdf)
    /\ UNCHANGED <<slide_in, layout>>

(***************************************************************************)
(* POST /posts/generate.                                                   *)
(***************************************************************************)
DecimalDigits == { Digit[i] : i \in 1..9 } \cup {"0"}

SlideMarker == <<"S", "L", "I", "D", "E", " ">>

HasAt(s, i, p) ==
    /\ i + Len(p) - 1 <= Len(s)
    /\ \A k \in 1..Len(p) : s[i + k - 1] = p[k]

\* the index of the ':' that ends a match of r'SLIDE \d+:' starting at i, or 0
marker_end(s, i) ==
    IF ~HasAt(s, i, SlideMarker) THEN 0
    ELSE LET j == i + Len(SlideMarker)
             k == FirstNotIn(s, j, DecimalDigits)
         IN  IF k > j /\ k <= Len(s) /\ s[k] = ":" THEN k ELSE 0

\* re.split(r'SLIDE \d+:', s[i:])
RECURSIVE split_markers(_, _)
split_markers(s, i) ==
    IF \E k \in i..Len(s) : marker_end(s, k) # 0
    THEN LET m == CHOOSE k \in i..Len(s) :
                    marker_end(s, k) # 0 /\ \A j \in i..(k - 1) : marker_end(s, j) = 0
         IN  <<SubSeq(s, i, m - 1)>> \o split_markers(s, marker_end(s, m) + 1)
    ELSE <<SubSeq(s, i, Len(s))>>

\* s[i:].split('\n')
RECURSIVE split_lines(_, _)
split_lines(s, i) ==
    LET e == FirstIn(s, i, {"\n"})
    IN  IF e > Len(s) THEN <<SubSeq(s, i, Len(s))>>
        ELSE <<SubSeq(s, i, e - 1)>> \o split_lines(s, e + 1)

\* '\n'.join(lines)
RECURSIVE join_lines(_)
join_lines(lines) ==
    IF lines = <<>> THEN <<>>
    ELSE IF Len(lines) = 1 THEN lines[1]
    ELSE lines[1] \o <<"\n">> \o join_lines(Tail(lines))

VisualPrefix == <<"(", "V", "i", "s", "u", "a", "l", ":">>

\* the loop over the lines of a section: title, content_lines and visual_found
RECURSIVE section_lines(_, _)
section_lines(lines, st) ==
    IF lines = <<>> THEN st
    ELSE LET line == strip(Head(lines))
         IN  section_lines(Tail(lines),
                IF line = <<>> THEN st
                ELSE IF HasAt(line, 1, VisualPrefix)
                THEN [st EXCEPT !.visual_found = TRUE,
                                !.content_lines = Append(@, line)]
                ELSE IF st.title = <<>> /\ ~st.visual_found
                THEN [st EXCEPT !.title = line]
                ELSE [st EXCEPT !.content_lines = Append(@, line)])

\* the loop over the sections: a section gives a slide when it has a title
RECURSIVE section_slides(_)
section_slides(sections) ==
    IF sections = <<>> THEN <<>>
    ELSE LET section == Head(sections)
             st == section_lines(split_lines(strip(section), 1),
                                 [title |-> <<>>, content_lines |-> <<>>,
                                  visual_found |-> FALSE])
         IN  (IF strip(section) # <<>> /\ st.title # <<>>
              THEN << [title |-> st.title, content |-> join_lines(st.content_lines)] >>
              ELSE <<>>)
                \o section_slides(Tail(sections))

\* _parse_slides_from_content
parse_slides_from_content(content) ==
    LET slide_sections == split_markers(content, 1)
    IN  section_slides(IF strip(slide_sections[1]) = <<>> THEN Tail(slide_sections)
                       ELSE slide_sections)

\* the lines of the generated text that are not hashtag lines, joined and stripped
final_content(text) ==
    LET lines == split_lines(strip(text), 1)
    IN  strip(join_lines(SelectSeq(lines, LAMBDA l : ~HasAt(strip(l), 1, <<"#">>))))

\* [tag.strip() for tag in line.split() if tag.startswith('#')], over the
\* hashtag lines in order
RECURSIVE line_hashtags(_)
line_hashtags(lines) ==
    IF lines = <<>> THEN <<>>
    ELSE (IF HasAt(strip(Head(lines)), 1, <<"#">>)
          THEN SelectSeq(split(Head(lines)), LAMBDA tag : HasAt(tag, 1, <<"#">>))
          ELSE <<>>)
            \o line_hashtags(Tail(lines))

text_hashtags(text) == line_hashtags(split_lines(strip(text), 1))

DefaultHashtags ==
    << <<"#", "L", "i", "n", "k", "e", "d", "I", "n">>,
       <<"#", "P", "r", "o", "f", "e", "s", "s", "i", "o", "n", "a", "l">> >>

\* hashtags[:5] if hashtags else ["#LinkedIn", "#Professional"]
response_hashtags(hashtags) ==
    IF hashtags # <<>> THEN prefix(hashtags, 5) ELSE DefaultHashtags

Providers == {"gemini", "openai"}
PostTypes == {"standard", "carousel", "trending_news"}
PostLanguages == {"english", "spanish", "both"}

\* request.news_article: absent, without and with an image
NewsArticles ==
    { None, [kind |-> "article", image_url |-> None],
            [kind |-> "article", image_url |-> [kind |-> "url", of |-> "article"]] }

\* what the model answers: plain text with hashtags, one slide, a section whose
\* directive comes before its title, and six hashtags before a slide
PostTexts ==
    { <<"h", "i", "\n", "#", "a", " ", "#", "b">>,
      <<"S", "L", "I", "D", "E", " ", "1", ":", "\n", "a", "1", "\n",
        "(", "V", "i", "s", "u", "a", "l", ":", " ", "x", ")", "\n", "h", "i", "\n", "#", "a">>,
      <<"S", "L", "I", "D", "E", " ", "1", ":", "\n",
        "(", "V", "i", "s", "u", "a", "l", ":", " ", "x", ")", "\n", "a", "1">>,
      <<"#", "a", " ", "#", "b", " ", "#", "c", " ", "#", "d", " ", "#", "e", " ", "#", "f",
        "\n", "S", "L", "I", "D", "E", " ", "1", "2", ":", "a", "1">> }

\* response.text, or the exception of model.generate_content
LlmOutcomes ==
    { [raised |-> TRUE, text |-> <<>>] } \cup { [raised |-> FALSE, text |-> t] : t \in PostTexts }

KeyMissing == "400: GOOGLE_API_KEY not configured"
ArticleRequired == "400: news_article is required for trending_news post type"
ProviderNotSupported == "400: Provider not supported"
PostLlmFailed == "model.generate_content failed"
SpanishPostFailed == "Spanish version generation failed"
NoFirstSlideImage == "name 'first_slide_image' is not defined"

PostPrefix == "Error generating post"

NoPost == [content |-> <<>>, hashtags |-> <<>>, carousel_url |-> None,
           content_es |-> None, carousel_url_es |-> None, bound |-> FALSE]

\* raise HTTPException(status_code=400, ...) inside the handler's try: the
\* handler's 'except Exception' catches it, HTTPException being an Exception
raise_in_handler(rec, exc) == answer(rec, {exc}, error500(PostPrefix, exc))

\* the handler from the request to the parsed text (lines 168-331)
GeneratePost(w) ==
    /\ wk[w].pc = "idle"
    /\ \E provider \in Providers, key \in BOOLEAN, post_type \in PostTypes,
          news_article \in NewsArticles, language \in PostLanguages, llm \in LlmOutcomes :
        LET rec == [wk[w] EXCEPT !.op = "post",
                                 !.req = [language |-> language, provider |-> provider,
                                          key |-> key, post_type |-> post_type,
                                          news_article |-> news_article]]
        IN  wk' = [wk EXCEPT ![w] =
                    IF provider # "gemini" THEN raise_in_handler(rec, ProviderNotSupported)
                    ELSE IF ~key THEN raise_in_handler(rec, KeyMissing)
                    ELSE IF post_type = "trending_news" /\ news_article = None
                    THEN raise_in_handler(rec, ArticleRequired)
                    ELSE IF llm.raised THEN raise_in_handler(rec, PostLlmFailed)
                    ELSE [rec EXCEPT !.post = [NoPost EXCEPT !.content = final_content(llm.text),
                                                             !.hashtags = text_hashtags(llm.text)],
                                     !.pc = "post_carousel"]]
    /\ UNCHANGED <<slide_in, layout, fs>>

\* variant: what the carousel block raises leaves the block
on_carousel_failure_raises(rec, exc) == raise_in_handler(rec, exc)

\* the except clause of the carousel block: a warning is printed, the handler
\* goes on without a carousel
on_carousel_failure(rec, exc) ==
    [rec EXCEPT !.faults = @ \cup {exc}, !.pc = "post_spanish"]

\* the carousel block (lines 333-378) up to its call of the renderer
PostCarousel(w) ==
    /\ wk[w].pc = "post_carousel"
    /\ LET rec == wk[w]
           slides == parse_slides_from_content(rec.post.content)
           bound == [rec EXCEPT !.post.bound = TRUE]
       IN  wk' = [wk EXCEPT ![w] =
                    IF rec.req.post_type \notin {"carousel", "trending_news"} \/ slides = <<>>
                    THEN [rec EXCEPT !.pc = "post_spanish"]
                    ELSE IF call_accepted(CarouselCallArgs)
                    THEN enter_renderer(bound, slides, "post")
                    ELSE on_carousel_failure(bound, UnexpectedKeyword)]
    /\ UNCHANGED <<slide_in, layout, fs>>

\* the Spanish block (lines 380-433); whatever it raises is caught by its own
\* except clause, and content_es keeps what was assigned before
PostSpanish(w) ==
    /\ wk[w].pc = "post_spanish"
    /\ \E llm \in LlmOutcomes :
        LET rec == wk[w]
            content_es == final_content(llm.text)
            spoken == [rec EXCEPT !.post.content_es = content_es, !.pc = "post_respond"]
            spanish_slides == parse_slides_from_content(content_es)
        IN  wk' = [wk EXCEPT ![w] =
                    IF rec.req.language # "both" THEN [rec EXCEPT !.pc = "post_respond"]
                    ELSE IF llm.raised
                    THEN [rec EXCEPT !.faults = @ \cup {SpanishPostFailed},
                                     !.pc = "post_respond"]
                    ELSE IF rec.req.post_type \notin {"carousel", "trending_news"}
                            \/ spanish_slides = <<>>
                    THEN spoken
                    ELSE IF ~rec.post.bound
                    THEN [spoken EXCEPT !.faults = @ \cup {NoFirstSlideImage}]
                    ELSE IF call_accepted(CarouselCallArgs)
                    THEN enter_renderer(spoken, spanish_slides, "post_es")
                    ELSE [spoken EXCEPT !.faults = @ \cup {SpanishRejected}]]
    /\ UNCHANGED <<slide_in, layout, fs>>

\* return PostResponse(...); voice_score, a function of len(final_content),
\* is left out of the body
RespondPost(w) ==
    /\ wk[w].pc = "post_respond"
    /\ LET rec == wk[w]
       IN  wk' = [wk EXCEPT ![w] =
                    answer(rec, {},
                           ok200([content |-> rec.post.content,
                                  hashtags |-> response_hashtags(rec.post.hashtags),
                                  carousel_url |-> rec.post.carousel_url,
                                  content_es |-> rec.post.content_es,
                                  carousel_url_es |-> rec.post.carousel_url_es]))]
    /\ UNCHANGED <<slide_in, layout, fs>>

Init ==
    /\ slide_in = [slide |-> [title |-> <<>>], idx |-> 0]
    /\ layout = NoLayout
    /\ wk = [w \in Workers |-> IdleWorker]
    /\ fs = <<>>

Next ==
    \/ \E w \in Workers :
        \/ DirectRender(w)
        \/ RequestImage(w)
        \/ DrawImage(w)
        \/ RemoveTemp(w)
        \/ RendererReturn(w)
        \/ GenerateCarousel(w)
        \/ TranslateCarousel(w)
        \/ RespondCarousel(w)
        \/ GenerateInteractive(w)
        \/ GenerateCodeImage(w)
        \/ GenerateChart(w)
        \/ GenerateInfographic(w)
        \/ GenerateQRCode(w)
        \/ GenerateAIImage(w)
        \/ SearchNews(w)

Spec == Init /\ [][Next]_vars

(***************************************************************************)
(* The post specification.  generate_post is a coroutine that never        *)
(* awaits: the event loop serves one request at a time.                    *)
(***************************************************************************)
OneWorker == { CHOOSE w \in Workers : TRUE }

NextPost ==
    \E w \in OneWorker :
        \/ GeneratePost(w)
        \/ PostCarousel(w)
        \/ PostSpanish(w)
        \/ RespondPost(w)

SpecPost == Init /\ [][NextPost]_vars

(***************************************************************************)
(* The two-language specification: one caller renders the English slides   *)
(* and then, as lines 811-818 of generate_carousel do, the Spanish slides. *)
(***************************************************************************)
\* the second call of generate_carousel_pdf, for the Spanish slides; result
\* still holds the English document while the Spanish pages are made
RenderSpanish(w) ==
    /\ wk[w].pc = "done"
    /\ wk[w].op = "render"
    /\ \E spanish_slides \in SlideLists :
        wk' = [wk EXCEPT ![w] =
                enter_renderer([@ EXCEPT !.op = "render_es"], spanish_slides, "direct")]
    /\ UNCHANGED <<slide_in, layout, fs>>

NextBoth ==
    \E w \in OneWorker :
        \/ DirectRender(w)
        \/ RequestImage(w)
        \/ DrawImage(w)
        \/ RemoveTemp(w)
        \/ RendererReturn(w)
        \/ RenderSpanish(w)

SpecBoth == Init /\ [][NextBoth]_vars

(***************************************************************************)
(* The news specification: one call of search_trending_news.               *)
(***************************************************************************)
NewsInputs ==
    [api : NewsApiOutcomes, articles : SeqsUpTo(ArticlePool, MaxNewsArticles),
     max_results : 0..MaxNewsResults]

InitNews ==
    /\ slide_in \in NewsInputs
    /\ layout = NoLayout
    /\ wk = [w \in Workers |-> IdleWorker]
    /\ fs = <<>>

\* the call, with the number of results the first pass took
SearchTrendingNews ==
    /\ layout = NoLayout
    /\ layout' = [returned |-> search_trending_news(slide_in.api, slide_in.articles,
                                                    slide_in.max_results),
                  first |-> IF slide_in.api = "articles"
                            THEN Len(first_pass(slide_in.articles, <<>>,
                                                slide_in.max_results))
                            ELSE 0]
    /\ UNCHANGED <<slide_in, shared_vars>>

NextNews == SearchTrendingNews

SpecNews == InitNews /\ [][NextNews]_vars

(***************************************************************************)
(* The parse specification: one call of _parse_slides_from_content.        *)
(***************************************************************************)
\* two markers, a marker without a number, the line break, a word, a word
\* with blanks around it and a directive
ParsePiecePool ==
    { <<"S", "L", "I", "D", "E", " ", "1", ":">>,
      <<"S", "L", "I", "D", "E", " ", "2", "3", ":">>,
      <<"S", "L", "I", "D", "E", " ", ":">>,
      <<"\n">>,
      <<"t", "1">>,
      <<" ", "b", " ">>,
      <<"(", "V", "i", "s", "u", "a", "l", ":", " ", "x", ")">> }

ParseTexts == { Concat(ps) : ps \in SeqsUpTo(ParsePiecePool, MaxParsePieces) }

InitParse ==
    /\ slide_in \in [text : ParseTexts]
    /\ layout = NoLayout
    /\ wk = [w \in Workers |-> IdleWorker]
    /\ fs = <<>>

ParseSlides ==
    /\ layout = NoLayout
    /\ layout' = [slides |-> parse_slides_from_content(slide_in.text)]
    /\ UNCHANGED <<slide_in, shared_vars>>

NextParse == ParseSlides

SpecParse == InitParse /\ [][NextParse]_vars

(***************************************************************************)
(* Layout specification: one slide in, its layout out.                     *)
(***************************************************************************)
InitLayout ==
    /\ slide_in \in [slide : LayoutSlides, idx : {0, 1}]
    /\ layout = NoLayout
    /\ wk = [w \in Workers |-> IdleWorker]
    /\ fs = <<>>

\* lines 579-652 of generate_carousel_pdf, for slide_in
LayoutSlide ==
    /\ layout = NoLayout
    /\ layout' = slide_layout(slide_in.slide, slide_in.idx)
    /\ UNCHANGED <<slide_in, shared_vars>>

NextLayout == LayoutSlide

SpecLayout == InitLayout /\ [][NextLayout]_vars

(***************************************************************************)
(* Image-fit specification: a slide and the size of the image the provider *)
(* returned for it in, the size and place of the drawn image out.          *)
(***************************************************************************)
ImageSizes ==
    { [width |-> w, height |-> h] : w \in 1..MaxImageSide, h \in 1..MaxImageSide }
        \cup { [width |-> 1024, height |-> 1024], [width |-> 1600, height |-> 900],
               [width |-> 25, height |-> 3], [width |-> 768, height |-> 1344] }

InitFit ==
    /\ slide_in \in [slide : {SlideAt(1)}, idx : {0, 1}, image : ImageSizes]
    /\ layout = NoLayout
    /\ wk = [w \in Workers |-> IdleWorker]
    /\ fs = <<>>

\* lines 667-702 of generate_carousel_pdf, for the image of slide_in
FitImage ==
    /\ layout = NoLayout
    /\ layout' = image_fit(slide_in.image.width, slide_in.image.height,
                           is_cover_slide(slide_in.slide, slide_in.idx))
    /\ UNCHANGED <<slide_in, shared_vars>>

NextFit == FitImage

SpecFit == InitFit /\ [][NextFit]_vars

(***************************************************************************)
(* The bullets specification: one slide, its bullets computed as lines     *)
(* 716-789 of generate_carousel_pdf compute them.                          *)
(***************************************************************************)
\* a short point, a point that repeats the title, a point of three words that
\* do not share a line, a word longer than a line alone and followed by a
\* short word, a directive, a point of exactly 45 characters inside markdown
\* symbols, and a point whose first two words fit a line only without the
\* space the loop counts after each word
BulletPiecePool ==
    { <<"c", "d", ".">>,
      <<"a", "b", "\n">>,
      Rep("e", 23) \o <<" ">> \o Rep("e", 23) \o <<" ">> \o Rep("e", 23) \o <<".">>,
      Rep("x", 46) \o <<"\n">>,
      Rep("x", 46) \o <<" ", "c", "d", ".">>,
      <<"(", "V", "i", "s", "u", "a", "l", ":", " ", "x", ")">>,
      <<"*">> \o Rep("d", 45) \o <<"*", ".">>,
      Rep("f", 22) \o <<" ">> \o Rep("f", 22) \o <<" ", "h", ".">> }

RepeatPiece(p, n) == Concat([i \in 1..n |-> p])

BulletBodies ==
    { RepeatPiece(p, i) \o RepeatPiece(q, j) :
        p \in BulletPiecePool, q \in BulletPiecePool, i \in 0..MaxRepeat, j \in 0..MaxRepeat }

InitBullets ==
    /\ slide_in \in [slide : { [title |-> <<"a", "b">>, content |-> c] : c \in BulletBodies },
                     idx : {0, 1}]
    /\ layout = NoLayout
    /\ wk = [w \in Workers |-> IdleWorker]
    /\ fs = <<>>

\* lines 716-789 of generate_carousel_pdf, for slide_in
DrawBullets ==
    /\ layout = NoLayout
    /\ layout' = drawn_bullets(slide_in.slide, slide_in.idx)
    /\ UNCHANGED <<slide_in, shared_vars>>

NextBullets == DrawBullets

SpecBullets == InitBullets /\ [][NextBullets]_vars

(***************************************************************************)
(* The directive specification: the bullets of a slide whose content is    *)
(* made of directives and of body words that share no character with them. *)
(***************************************************************************)
\* a directive with a description, one whose description is a blank, an empty
\* one, one whose description contains parentheses, a body word, the line
\* break and the period
VisualPiecePool ==
    { <<"(", "V", "i", "s", "u", "a", "l", ":", " ", "x", ")">>,
      <<"(", "V", "i", "s", "u", "a", "l", ":", " ", ")">>,
      <<"(", "V", "i", "s", "u", "a", "l", ":", ")">>,
      <<"(", "V", "i", "s", "u", "a", "l", ":", " ", "x", " ", "(", "y", ")", " ", "z", ")">>,
      <<"h", "o">>,
      <<"\n">>,
      <<".">> }

VisualBodies == { Concat(ps) : ps \in SeqsUpTo(VisualPiecePool, MaxVisualPieces) }

InitVisual ==
    /\ slide_in \in [slide : { [title |-> <<"a", "b">>, content |-> c] : c \in VisualBodies },
                     idx : {0, 1}]
    /\ layout = NoLayout
    /\ wk = [w \in Workers |-> IdleWorker]
    /\ fs = <<>>

SpecVisual == InitVisual /\ [][NextBullets]_vars

(***************************************************************************)
(* The directive, stated without the renderer's scan: an opener            *)
(* '(Visual:' in any case, at least one character other than ')', and the  *)
(* next ')'.                                                               *)
(***************************************************************************)
DirectiveSpans(s) ==
    LET closer(i) == FirstIn(s, i + Len(VisualOpener), {")"})
    IN  { <<i, closer(i)>> :
            i \in { o \in 1..Len(s) :
                      /\ OpensAt(s, o)
                      /\ closer(o) <= Len(s)
                      /\ closer(o) > o + Len(VisualOpener) } }

HasDirective(s) == DirectiveSpans(s) # {}

\* the text inside the leftmost directive
DirectiveText(s) ==
    LET sp == CHOOSE sp \in DirectiveSpans(s) : \A o \in DirectiveSpans(s) : sp[1] <= o[1]
    IN  strip(SubSeq(s, sp[1] + Len(VisualOpener), sp[2] - 1))

\* the positions of s that hold text outside every directive
BodyPositions(s) ==
    LET spans == DirectiveSpans(s)
    IN  { p \in 1..Len(s) :
            s[p] \notin Whitespace /\ ~\E sp \in spans : sp[1] <= p /\ p <= sp[2] }

InContent == strip(slide_get_content(slide_in.slide))
InTitle == slide_get_title(slide_in.slide, slide_in.idx)
LaidOut == layout # NoLayout

StartsWith(s, p) == Len(s) >= Len(p) /\ SubSeq(s, 1, Len(p)) = p
EndsWith(s, p) == Len(s) >= Len(p) /\ SubSeq(s, Len(s) - Len(p) + 1, Len(s)) = p
Professional == <<"P", "r", "o", "f", "e", "s", "s", "i", "o", "n", "a", "l", " ">>
GenericFrom(prompt, t) == StartsWith(prompt, Professional) /\ EndsWith(prompt, t)

\* C7 as stated: the prompt is the directive's text if the content has a
\* directive; otherwise the text before the first period whenever the content is
\* not empty; otherwise a 'Professional ...' phrase built from the title.
C7_PromptPriorityAsStated ==
    LaidOut =>
        IF HasDirective(InContent) THEN layout.prompt = DirectiveText(InContent)
        ELSE IF InContent # <<>> THEN layout.prompt = before_period(InContent)
        ELSE GenericFrom(layout.prompt, layout.title)

\* C7 amended: the prompt is the directive's text if the content has a
\* directive; otherwise, when the content is longer than 10 characters, the
\* first 100 characters of the text before the first period; otherwise a
\* 'Professional ...' phrase that ends with the title as drawn.
C7_PromptPriority ==
    LaidOut =>
        IF HasDirective(InContent) THEN layout.prompt = DirectiveText(InContent)
        ELSE IF Len(InContent) > 10
             THEN \E n \in 0..100 :
                    /\ layout.prompt = SubSeq(InContent, 1, n)
                    /\ \A j \in 1..n : InContent[j] # "."
                    /\ n = 100 \/ n = Len(InContent) \/ InContent[n + 1] = "."
        ELSE GenericFrom(layout.prompt, layout.title)

\* C7 witness: a first sentence longer than 100 characters was cut to 100
C7_Witness ==
    /\ LaidOut
    /\ ~HasDirective(InContent)
    /\ Len(before_period(InContent)) > 100
    /\ Len(layout.prompt) = 100

\* C8: a slide is a cover slide iff it is the first one or nothing is left of
\* its content once the directive is removed; a cover slide's title is drawn
\* uppercased, every other title unchanged.
C8_CoverSlide ==
    LaidOut =>
        /\ layout.cover <=> (slide_in.idx = 0 \/ BodyPositions(InContent) = {})
        /\ layout.title = IF layout.cover THEN upper(InTitle) ELSE InTitle

\* C8 witness: a later slide that holds only a directive is a cover slide and
\* its title changed when it was uppercased
C8_Witness ==
    /\ LaidOut
    /\ slide_in.idx = 1
    /\ InContent # <<>>
    /\ layout.cover
    /\ layout.title # InTitle

\* C9: the font size follows the length L of the drawn title: 18 when L > 50,
\* 22 when 35 < L <= 50, 26 when 25 < L <= 35, 32 when L <= 25, and exactly one
\* of the four cases applies.
C9_TitleFont ==
    LaidOut =>
        LET L == Len(layout.title)
            cases == { <<L > 50, 18>>, <<35 < L /\ L <= 50, 22>>,
                       <<25 < L /\ L <= 35, 26>>, <<L <= 25, 32>> }
        IN  /\ Cardinality({ c \in cases : c[1] }) = 1
            /\ \A c \in cases : c[1] => layout.font = c[2]

\* C9 witness: a title of exactly 50 characters drawn at 22pt
C9_Witness == LaidOut /\ Len(layout.title) = 50 /\ layout.font = 22

\* C10: a title longer than 50 characters is drawn as two lines, the first
\* holding the first half of its words (rounded down) and the second the rest,
\* so that the two lines give back the title's words in order; a title of 50
\* characters or fewer is drawn as one line.
C10_TitleWrap ==
    LaidOut =>
        LET t == layout.title
            words == split(t)
            n == Len(words)
        IN  IF Len(t) > 50
            THEN /\ Len(layout.lines) = 2
                 /\ split(layout.lines[1][2]) = SubSeq(words, 1, n \div 2)
                 /\ split(layout.lines[2][2]) = SubSeq(words, n \div 2 + 1, n)
                 /\ split(layout.lines[1][2] \o <<" ">> \o layout.lines[2][2]) = words
            ELSE Len(layout.lines) = 1 /\ layout.lines[1][2] = t

\* C10 witness: a title of three words and more than 50 characters on two lines
C10_Witness ==
    /\ LaidOut
    /\ Len(layout.title) > 50
    /\ Len(split(layout.title)) = 3
    /\ Len(layout.lines) = 2
    /\ layout.lines[1][2] # <<>>

(***************************************************************************)
(* Claims about the renderer as a process and about the endpoints.         *)
(***************************************************************************)
RendererPcs == {"image", "draw", "remove", "return"}

ImageFailures == {"no image", "not an image", "file missing"}

\* C1: generate_carousel_pdf emits one page per slide, in slide order: while
\* it runs it has closed one page for each slide it has passed, and the
\* document it returns has N pages for N slides, page i showing slide i's title,
\* whether or not the image steps succeeded.
C1_OnePagePerSlide ==
    \A w \in Workers :
        /\ wk[w].pc \in RendererPcs => Len(wk[w].pages) = wk[w].idx
        /\ wk[w].result # None =>
            /\ Len(wk[w].result.pages) = Len(wk[w].slides)
            /\ \A i \in 1..Len(wk[w].slides) :
                /\ wk[w].result.pages[i].idx = i - 1
                /\ upper(wk[w].result.pages[i].layout.title) = upper(wk[w].slides[i].title)

\* a two-slide document whose first image step failed and whose second did not
C1_Witness ==
    \E w \in Workers :
        /\ wk[w].result # None
        /\ Len(wk[w].slides) = 2
        /\ wk[w].result.pages[1].outcome = "not an image"
        /\ wk[w].result.pages[2].outcome = "drawn"

\* C2: every page asked the provider for its image once; a page whose image
\* step failed has the placeholder panel with the caption
\* '[Image generation failed]' and no image, and is laid out all the same;
\* the renderer never leaves with the exception, and goes on to the slides
\* that follow.
C2_ImageFailurePlaceholder ==
    \A w \in Workers :
        /\ wk[w].pc # "raised"
        /\ \A i \in 1..Len(wk[w].pages) :
            LET page == wk[w].pages[i]
            IN  /\ page.requests = 1
                /\ page.outcome \in ImageFailures \cup {"drawn"}
                /\ page.outcome \in ImageFailures <=>
                       page.placeholder /\ page.caption = FailedCaption
                /\ page.layout # NoLayout
                /\ page.layout.prompt # <<>>
        /\ wk[w].pc \in {"return", "done"} /\ wk[w].op = "render" =>
               Len(wk[w].pages) = Len(wk[w].slides)

\* a returned document whose first page has the placeholder because the
\* provider gave no image, and whose second page was rendered after it
C2_Witness ==
    \E w \in Workers :
        /\ wk[w].result # None
        /\ Len(wk[w].result.pages) = 2
        /\ wk[w].result.pages[1].outcome = "no image"
        /\ wk[w].result.pages[1].placeholder
        /\ wk[w].result.pages[1].caption = FailedCaption
        /\ wk[w].result.pages[2].layout # NoLayout

\* the failures that are caught where they happen
CaughtInPlace ==
    {UploadFailed, LlmFailed, NewsRequestFailed, SpanishTranslationFailed,
     SpanishNotJson, SpanishRejected, ImageFailed}

Escaped(w) == wk[w].faults \ CaughtInPlace

\* C3 as stated: whatever fails while a request is served, the response is a
\* 500 whose detail holds the exception text.
C3_EveryFailureIs500 ==
    \A w \in Workers :
        wk[w].resp # None =>
            /\ wk[w].resp.status \in {200, 500}
            /\ wk[w].faults # {} =>
                /\ wk[w].resp.status = 500
                /\ wk[w].resp.detail[2] \in wk[w].faults

\* C3: a response is a 500 exactly when a failure reached the endpoint's outer
\* handler, and then its detail holds that failure's text; a failed upload, a
\* failed NewsAPI request, a failed LLM call of the interactive page and a
\* failure of the Spanish carousel are caught where they happen and leave the
\* response a success.
C3_FailureHandling ==
    \A w \in Workers :
        wk[w].resp # None =>
            /\ wk[w].resp.status \in {200, 500}
            /\ wk[w].resp.status = 500 <=> Escaped(w) # {}
            /\ wk[w].resp.status = 500 => wk[w].resp.detail[2] \in Escaped(w)

\* one request answered 500 with the generator's exception, another answered
\* 200 although its upload failed
C3_Witness ==
    \E w, v \in Workers :
        /\ wk[w].resp # None /\ wk[v].resp # None
        /\ wk[w].resp.status = 500
        /\ wk[w].resp.detail[2] = GenerationFailed
        /\ wk[v].resp.status = 200
        /\ UploadFailed \in wk[v].faults

MediaTypes == {"interactive", "code", "chart", "infographic", "qrcode", "carousel", "ai-image"}

\* C4 as stated: a successful response of a media endpoint carries a url that
\* is the URL the upload returned or a data URI of the generated bytes, never
\* null and never empty.
C4_SuccessHasUrl ==
    \A w \in Workers :
        (wk[w].resp # None /\ wk[w].op \in MediaTypes /\ wk[w].resp.status = 200) =>
            (wk[w].resp.body.success =>
                /\ ~falsy(wk[w].resp.body.url)
                /\ wk[w].resp.body.url.kind \in {"url", "data_uri"})

\* C5 as stated: a carousel request for 'english' or 'both' is answered with
\* success, a url of the rendered English PDF and a filename ending in
\* '_EN.pdf'.
C5_EnglishCarousel ==
    \A w \in Workers :
        (wk[w].resp # None /\ wk[w].op = "carousel"
            /\ wk[w].req.language \in {"english", "both"}) =>
            /\ wk[w].resp.status = 200
            /\ wk[w].resp.body.success
            /\ ~falsy(wk[w].resp.body.url)
            /\ EndsWith(wk[w].resp.body.filename, <<"_EN.pdf">>)

\* C6 as stated: a rendering embeds only images it fetched itself, finds its
\* temp file as it left it, and never fails because the file is gone.
C6_NoSharedFiles ==
    \A w \in Workers :
        /\ \A i \in 1..Len(wk[w].pages) :
            /\ wk[w].pages[i].outcome # "file missing"
            /\ wk[w].pages[i].image # None =>
                   wk[w].pages[i].image.by = w /\ wk[w].pages[i].image.idx = i - 1
        /\ wk[w].pc \in {"draw", "remove"} =>
            /\ exists(temp_img_path(wk[w].idx))
            /\ fs[temp_img_path(wk[w].idx)].by = w

(***************************************************************************)
(* Claims about the image fit.                                             *)
(***************************************************************************)
Fitted == layout # NoLayout

\* the bottom of the image box: y = 270 on a cover slide, y = 370 otherwise
BoxBottom == IF slide_in.idx = 0 THEN page_height - 480 ELSE page_height - 380

Centered ==
    /\ layout.x_offset = 50 + (500 - layout.new_width) \div 2
    /\ layout.image_y = BoxBottom + (300 - layout.new_height) \div 2

BulletsDrawn == layout # NoLayout /\ "bullets" \in DOMAIN layout

Min(a, b) == IF a < b THEN a ELSE b

\* C12 as stated: the number of bullets drawn is min(12, number of wrapped
\* lines produced from the body), every point of the body counted.
C12_AllBodyLines ==
    BulletsDrawn =>
        Len(layout.bullets)
            = Min(12, Len(bullet_points_all(slide_in.slide, slide_in.idx)))

\* C12: no page shows more than 12 bullet lines; the number drawn is min(12,
\* number of wrapped lines of the first six points of the cleaned body, points
\* that repeat the title left out), which never exceeds the count over the
\* whole body.
C12_BulletCount ==
    BulletsDrawn =>
        /\ Len(layout.bullets) <= 12
        /\ layout.total_bullets = Len(layout.bullets)
        /\ Len(layout.bullets)
            = Min(12, Len(bullet_points(slide_in.slide, slide_in.idx)))
        /\ Len(layout.bullets)
            <= Min(12, Len(bullet_points_all(slide_in.slide, slide_in.idx)))

\* more than 12 lines were produced and 12 are drawn
C12_Witness ==
    /\ BulletsDrawn
    /\ Len(bullet_points(slide_in.slide, slide_in.idx)) > 12
    /\ Len(layout.bullets) = 12

\* every bullet line drawn is at most 45 characters long
C13_LinesFit ==
    BulletsDrawn => \A i \in 1..Len(layout.bullets) : Len(layout.bullets[i].text) <= 45

\* wrapping loses no word: the lines of a point joined by spaces give back the
\* point's words in order
C13_NoWordLost ==
    BulletsDrawn =>
        LET content == bullet_content(slide_in.slide, slide_in.idx)
            points == IF content = <<>> THEN <<>> ELSE raw_points(content)
        IN  \A k \in 1..Len(points) :
                split(join(point_lines(points[k]))) = split(points[k])

\* C13 as stated: every bullet line drawn is at most 45 characters long, for
\* any body text, and wrapping loses no word.
C13_LinesFitNoWordLost == C13_LinesFit /\ C13_NoWordLost

\* C14: with n bullets drawn (1 <= n <= 12) the spacing is min(32, 250 div n),
\* the first baseline is y = 330, each next one is one spacing lower, and
\* every baseline lies between the footer margin y = 80 and y = 330.
C14_BulletSpacing ==
    BulletsDrawn =>
        LET n == Len(layout.bullets)
        IN  n \in 1..12 =>
                /\ layout.line_spacing = Min(32, 250 \div n)
                /\ layout.line_spacing <= 32
                /\ layout.bullets[1].y = 330
                /\ \A i \in 1..(n - 1) :
                        layout.bullets[i + 1].y = layout.bullets[i].y - layout.line_spacing
                /\ \A i \in 1..n : layout.bullets[i].y >= 80 /\ layout.bullets[i].y <= 330

\* twelve bullets, 20 points apart, the last one at y = 110
C14_Witness ==
    /\ BulletsDrawn
    /\ Len(layout.bullets) = 12
    /\ layout.line_spacing = 20
    /\ layout.bullets[12].y = 110

(***************************************************************************)
(* Claims about generate_post.                                             *)
(***************************************************************************)
PostDone(w) == wk[w].op = "post" /\ wk[w].pc = "done"

FailsValidation(req) ==
    \/ req.provider # "gemini"
    \/ ~req.key
    \/ req.post_type = "trending_news" /\ req.news_article = None

\* C15 as stated: a provider other than 'gemini', a missing GOOGLE_API_KEY and
\* 'trending_news' without news_article are each answered with status 400.
C15_ValidationIs400 ==
    \A w \in Workers :
        PostDone(w) /\ FailsValidation(wk[w].req) => wk[w].resp.status = 400

CarouselBlockFailed(w) ==
    /\ wk[w].op = "post"
    /\ wk[w].req.post_type \in {"carousel", "trending_news"}
    /\ UnexpectedKeyword \in wk[w].faults

\* C17: in generate_post with post_type 'carousel' or 'trending_news', a
\* failure inside the carousel block does not fail the request: the handler
\* goes on, and its response is a 200 that carries the generated text and the
\* hashtags, with carousel_url null.
C17_CarouselFailureTolerated ==
    \A w \in Workers :
        CarouselBlockFailed(w) =>
            /\ wk[w].pc \in {"post_spanish", "post_respond", "done"}
            /\ wk[w].post.carousel_url = None
            /\ wk[w].pc = "done" =>
                /\ wk[w].resp.status = 200
                /\ wk[w].resp.body.content = wk[w].post.content
                /\ wk[w].resp.body.hashtags = response_hashtags(wk[w].post.hashtags)
                /\ wk[w].resp.body.carousel_url = None

\* the renderer call of a carousel post failed and the response carries the
\* slide text and its hashtag
C17_Witness ==
    \E w \in Workers :
        /\ CarouselBlockFailed(w)
        /\ PostDone(w)
        /\ wk[w].resp.status = 200
        /\ wk[w].resp.body.hashtags = << <<"#", "a">> >>
        /\ Len(wk[w].resp.body.content) > 2
        /\ wk[w].resp.body.carousel_url = None

(***************************************************************************)
(* Claims about the images of the two languages.                           *)
(***************************************************************************)
\* the descriptions the provider was asked for while these pages were made
Requested(pages) == { pages[i].layout.prompt : i \in { k \in 1..Len(pages) : pages[k].requests > 0 } }

\* C16 as stated: while the Spanish carousel is rendered after the English
\* one, no image request is sent for a description the English carousel
\* already used.
C16_ImagesReused ==
    \A w \in Workers :
        wk[w].op = "render_es" /\ wk[w].pc # "done" =>
            Requested(wk[w].pages) \cap Requested(wk[w].result.pages) = {}

(***************************************************************************)
(* Claims about the carousel response and the news search.                 *)
(***************************************************************************)
CarouselDone(w) == wk[w].op = "carousel" /\ wk[w].pc = "done"

\* C18 as stated: with language 'both', when the Spanish version is not
\* produced the response is success = true with the English url, filename and
\* local_path, and null url_es, filename_es and local_path_es.
C18_SpanishFailureTolerated ==
    \A w \in Workers :
        CarouselDone(w) /\ wk[w].req.language = "both" /\ wk[w].url_es = None =>
            /\ wk[w].resp.status = 200
            /\ wk[w].resp.body.success
            /\ wk[w].resp.body.url # None
            /\ wk[w].resp.body.filename # None
            /\ wk[w].resp.body.local_path # None
            /\ wk[w].resp.body.url_es = None
            /\ wk[w].resp.body.filename_es = None
            /\ wk[w].resp.body.local_path_es = None

\* C19 as stated: the Spanish fields of the response are non-null only when
\* language is 'both'; with 'spanish' the main fields carry the Spanish
\* result, with 'english' or 'both' the English result.
C19_ResponseFields ==
    \A w \in Workers :
        CarouselDone(w) =>
            /\ wk[w].resp.status = 200 /\ wk[w].req.language # "both" =>
                /\ wk[w].resp.body.url_es = None
                /\ wk[w].resp.body.filename_es = None
                /\ wk[w].resp.body.local_path_es = None
            /\ wk[w].req.language = "spanish" =>
                /\ wk[w].resp.status = 200
                /\ wk[w].resp.body.url = wk[w].url_es
                /\ wk[w].resp.body.filename = wk[w].filename_es
                /\ wk[w].resp.body.local_path = wk[w].local_path_es
            /\ wk[w].req.language \in {"english", "both"} =>
                /\ wk[w].resp.status = 200
                /\ wk[w].resp.body.url = wk[w].url
                /\ wk[w].resp.body.filename = wk[w].filename
                /\ wk[w].resp.body.local_path = wk[w].local_path

NewsReturned == layout # NoLayout /\ "returned" \in DOMAIN layout

\* the number of articles of a list that name the source
FromSource(results, source) == Cardinality({ i \in 1..Len(results) : results[i].source = source })

Sources == { a.source : a \in ArticlePool }

\* C20 as stated: the returned list never contains more than 2 articles with
\* the same source name.
C20_TwoPerSource ==
    NewsReturned => \A s \in Sources : FromSource(layout.returned.value, s) <= 2

\* C20: the articles the first pass takes, the first ones of the returned
\* list, all have an image and are at most 2 per source; a source has more
\* than 2 articles in the list only when the first pass found fewer than
\* max_results and the second pass filled the list up.
C20_FirstPassDiversity ==
    NewsReturned =>
        LET results == layout.returned.value
            taken == SubSeq(results, 1, layout.first)
        IN  /\ layout.first <= Len(results)
            /\ Len(results) <= slide_in.max_results
            /\ \A i \in 1..Len(taken) : taken[i].image_url
            /\ \A s \in Sources : FromSource(taken, s) <= 2
            /\ \A s \in Sources :
                    FromSource(results, s) > 2 => layout.first < slide_in.max_results

\* two articles of a source came from the first pass and the second pass
\* added a third
C20_Witness ==
    /\ NewsReturned
    /\ layout.first = 2
    /\ \E s \in Sources : FromSource(layout.returned.value, s) = 3

DistinctUrls(articles) == Cardinality({ articles[i].url : i \in 1..Len(articles) })

Parsed == layout # NoLayout /\ "slides" \in DOMAIN layout

\* the non-empty lines of a section, stripped, in order
NonEmptyLines(section) ==
    LET lines == split_lines(section, 1)
        stripped == [i \in 1..Len(lines) |-> strip(lines[i])]
    IN  SelectSeq(stripped, LAMBDA l : l # <<>>)

\* the text before the first marker, and the sections that follow the markers
Preamble(text) == split_markers(text, 1)[1]
MarkerSections(text) == Tail(split_markers(text, 1))

\* the slides the sections give when the first non-empty line of a section is
\* its title and the other non-empty lines are its content
RECURSIVE FirstLineSlides(_)
FirstLineSlides(sections) ==
    IF sections = <<>> THEN <<>>
    ELSE LET lines == NonEmptyLines(Head(sections))
         IN  (IF lines = <<>> THEN <<>>
              ELSE << [title |-> lines[1], content |-> join_lines(Tail(lines))] >>)
                \o FirstLineSlides(Tail(sections))

\* the slides the code makes of the text before the first marker
PreambleSlides(text) ==
    IF strip(Preamble(text)) = <<>> THEN <<>>
    ELSE parse_slides_from_content(Preamble(text))

\* C22 as stated: every 'SLIDE n:' section with a non-empty line gives a slide
\* whose title is the section's first non-empty line and whose content is the
\* remaining non-empty lines, stripped and joined by newlines; every element
\* has exactly the keys 'title' and 'content'.
C22_FirstLineIsTitle ==
    Parsed =>
        /\ \A i \in 1..Len(layout.slides) : DOMAIN layout.slides[i] = {"title", "content"}
        /\ layout.slides
            = PreambleSlides(slide_in.text) \o FirstLineSlides(MarkerSections(slide_in.text))

StartsWithDirective(section) ==
    NonEmptyLines(section) # <<>> /\ HasAt(NonEmptyLines(section)[1], 1, VisualPrefix)

\* the sections whose first non-empty line is not a directive
TitledSections(sections) == SelectSeq(sections, LAMBDA s : ~StartsWithDirective(s))

\* what holds of the parser: the sections whose first non-empty line is a
\* directive give no slide, the others give the slides C22 describes
C22_TitledSections ==
    Parsed =>
        /\ \A i \in 1..Len(layout.slides) : DOMAIN layout.slides[i] = {"title", "content"}
        /\ layout.slides
            = PreambleSlides(slide_in.text)
                \o FirstLineSlides(TitledSections(MarkerSections(slide_in.text)))

\* a section with a title and a directive was parsed
C22_Parsed ==
    /\ Parsed
    /\ Len(layout.slides) = 1
    /\ layout.slides[1].title = <<"t", "1">>
    /\ layout.slides[1].content = <<"(", "V", "i", "s", "u", "a", "l", ":", " ", "x", ")">>

(***************************************************************************)
(* Claims about the directive and the bullets.                             *)
(***************************************************************************)
\* the characters of the body words of VisualPiecePool, and the blank
BodyChars == {"h", "o", " "}

Occurs(s, p) == \E i \in 1..Len(s) : HasAt(s, i, p)

OnlyBodyText ==
    \A i \in 1..Len(layout.bullets) :
        \A k \in 1..Len(layout.bullets[i].text) : layout.bullets[i].text[k] \in BodyChars

\* C23 as stated: no bullet line drawn on a slide contains any part of a
\* directive of the slide's content, an empty directive and a directive whose
\* description contains parentheses included.
C23_NoDirectiveInBullets == BulletsDrawn => OnlyBodyText

\* what holds of the bullets: a directive with a non-empty description free
\* of parentheses leaves nothing in them
C23_PlainDirectives ==
    BulletsDrawn =>
        (~Occurs(slide_in.slide.content, <<":", ")">>)
            /\ ~Occurs(slide_in.slide.content, <<"(", "y">>)
         => OnlyBodyText)

\* a directive was removed and the body word next to it is the only bullet
C23_Removed ==
    /\ BulletsDrawn
    /\ Occurs(slide_in.slide.content, VisualPrefix)
    /\ Len(layout.bullets) = 1
    /\ layout.bullets[1].text = <<"h", "o">>

====
